---- MODULE Spec2Model ----
(***************************************************************************)
(* Package identity resolution and SBOM merge engine of SBOMGen.           *)
(*                                                                         *)
(* State: the rows of the `packages` and `dependencies` tables of one scan *)
(* (one reconciliation unit), the `merged_sbom` column of its scan_results *)
(* row, and the last service call with the value it returned.              *)
(*                                                                         *)
(* Strings that are compared character by character (names, versions) are  *)
(* tuples of one-character strings.  Scores are exact fractions.           *)
(***************************************************************************)
EXTENDS Integers, Sequences, FiniteSets, TLC

VARIABLES packages, dependencies, merged_sbom, last_call

vars == <<packages, dependencies, merged_sbom, last_call>>

(***************************************************************************)
(* Bounds of the model.                                                    *)
(***************************************************************************)
MaxRows == 3
MaxReported == 2
MaxDeps == 2

(***************************************************************************)
(* Generic helpers.                                                        *)
(***************************************************************************)
Range(s) == {s[i] : i \in DOMAIN s}

Max2(a, b) == IF a >= b THEN a ELSE b

Min2(a, b) == IF a <= b THEN a ELSE b

Perms(S) == {p \in [1..Cardinality(S) -> S] : \A i, j \in DOMAIN p : i # j => p[i] # p[j]}

Put(m, k, v) == [x \in (DOMAIN m) \cup {k} |-> IF x = k THEN v ELSE m[x]]

(***************************************************************************)
(* Characters and strings.                                                 *)
(***************************************************************************)
S_ab == <<"a", "b">>
S_temp == <<"t", "e", "m", "p">>
S_Temp == <<"T", "e", "m", "p">>
V_12 == <<"1", ".", "2">>
V_123 == <<"1", ".", "2", ".", "3">>
V_1234 == <<"1", ".", "2", ".", "3", ".", "4">>

\* str.lower() / pg_trgm's lower-casing, on the characters of the model
Lower(c) ==
  CASE c = "A" -> "a" [] c = "G" -> "g" [] c = "H" -> "h" [] c = "P" -> "p"
    [] c = "T" -> "t" [] OTHER -> c

LowerStr(s) == [i \in DOMAIN s |-> Lower(s[i])]

\* alphanumeric characters are the word characters of pg_trgm
IsAlnum(c) == c \notin {".", "/", "-", " ", "@", ":"}

\* byte order of the characters of the model (C collation)
CharCode(c) ==
  CASE c = " " -> 32 [] c = "-" -> 45 [] c = "." -> 46 [] c = "/" -> 47
    [] c = "1" -> 49 [] c = "2" -> 50 [] c = "3" -> 51 [] c = "4" -> 52
    [] c = ":" -> 58 [] c = "@" -> 64 [] c = "A" -> 65 [] c = "T" -> 84
    [] c = "a" -> 97 [] c = "b" -> 98 [] c = "e" -> 101 [] c = "m" -> 109
    [] c = "p" -> 112 [] c = "t" -> 116 [] OTHER -> 127

RECURSIVE StrLess(_, _)
StrLess(a, b) ==
  IF b = <<>> THEN FALSE
  ELSE IF a = <<>> THEN TRUE
  ELSE IF CharCode(Head(a)) # CharCode(Head(b)) THEN CharCode(Head(a)) < CharCode(Head(b))
  ELSE StrLess(Tail(a), Tail(b))

\* `pattern in text`
Contains(text, pattern) ==
  \E i \in 1..(Len(text) - Len(pattern) + 1) :
     SubSeq(text, i, i + Len(pattern) - 1) = pattern

(***************************************************************************)
(* Scanners.                                                               *)
(***************************************************************************)
Scanners == {"trivy", "syft", "cdxgen"}

\* order in which run_scan saves the scanners' packages
RunOrder(s) ==
  CASE s = "trivy" -> 1 [] s = "syft" -> 2 [] s = "cdxgen" -> 3
    [] s = "ghas" -> 4 [] s = "blackduck" -> 5 [] OTHER -> 6

\* scanner_name < scanner_name in SQL
ScannerLess(s1, s2) ==
  LET rank(s) == CASE s = "blackduck" -> 1 [] s = "cdxgen" -> 2 [] s = "ghas" -> 3
                   [] s = "syft" -> 4 [] s = "trivy" -> 5 [] OTHER -> 6
  IN rank(s1) < rank(s2)

(***************************************************************************)
(* Similarity: pg_trgm similarity() and fuzzystrmatch levenshtein().       *)
(***************************************************************************)
\* the words of a string: maximal runs of alphanumeric characters
RECURSIVE Words(_, _)
Words(s, cur) ==
  IF s = <<>> THEN (IF cur = <<>> THEN {} ELSE {cur})
  ELSE IF IsAlnum(Head(s)) THEN Words(Tail(s), Append(cur, Head(s)))
  ELSE (IF cur = <<>> THEN {} ELSE {cur}) \cup Words(Tail(s), <<>>)

\* trigrams of a string: each lower-cased word padded with two blanks in
\* front and one behind
Trigrams(s) ==
  UNION { LET w == <<" ", " ">> \o word \o <<" ">>
          IN {SubSeq(w, i, i + 2) : i \in 1..(Len(w) - 2)}
        : word \in Words(LowerStr(s), <<>>) }

\* similarity(a, b) as the fraction <<common, union>>; <<0, 1>> when a
\* string has no trigram
similarity(a, b) ==
  LET ta == Trigrams(a)
      tb == Trigrams(b)
      common == Cardinality(ta \cap tb)
  IN IF ta = {} \/ tb = {} THEN <<0, 1>>
     ELSE <<common, Cardinality(ta) + Cardinality(tb) - common>>

\* one row of the edit-distance table: prev is the row of the previous
\* character of a, cur the part of the row of ch filled so far
RECURSIVE LevFill(_, _, _, _)
LevFill(prev, ch, b, cur) ==
  IF Len(cur) = Len(b) + 1 THEN cur
  ELSE LET j == Len(cur)
       IN LevFill(prev, ch, b,
            Append(cur, Min2(Min2(prev[j + 1] + 1, cur[j] + 1),
                             prev[j] + (IF ch = b[j] THEN 0 ELSE 1))))

RECURSIVE LevRows(_, _, _, _)
LevRows(a, b, i, prev) ==
  IF i > Len(a) THEN prev[Len(b) + 1]
  ELSE LevRows(a, b, i + 1, LevFill(prev, a[i], b, <<i>>))

\* levenshtein(a, b) with unit costs
levenshtein(a, b) == LevRows(a, b, 1, [j \in 1..(Len(b) + 1) |-> j - 1])

\* CASE WHEN GREATEST(LENGTH(a), LENGTH(b)) = 0 THEN 0
\*      ELSE 1.0 - levenshtein(a, b) / GREATEST(LENGTH(a), LENGTH(b)) END
\* as the fraction <<numerator, denominator>>
LevSimilarity(a, b) ==
  LET m == Max2(Len(a), Len(b))
  IN IF m = 0 THEN <<0, 1>> ELSE <<m - levenshtein(a, b), m>>

\* (name_similarity + version_similarity) / 2 as a fraction
Overall(ns, vs) == <<ns[1] * vs[2] + vs[1] * ns[2], 2 * ns[2] * vs[2]>>

\* fraction f > n / 10
FracGtTenths(f, n) == 10 * f[1] > n * f[2]

(***************************************************************************)
(* The packages table.  A row is a record                                  *)
(*   [scanner, original_ref, name, version, purl, primary, match_status];  *)
(* its position in `packages` is its id.                                   *)
(***************************************************************************)
Pkg(name, version, purl, primary) ==
  [name |-> name, version |-> version, purl |-> purl, primary |-> primary]

\* packages a scanner of the matching scenarios may report
MatchCatalog ==
  {Pkg(n, v, <<>>, "false") : n \in {S_temp, S_Temp}, v \in {V_12, V_123, V_1234}}
    \cup {Pkg(S_ab, V_12, <<>>, "false")}

RowsOf(rows, n, v) == {i \in DOMAIN rows : rows[i].name = n /\ rows[i].version = v}

KeysOf(rows) == {<<rows[i].name, rows[i].version>> : i \in DOMAIN rows}

ScannersOf(rows, n, v) == {rows[i].scanner : i \in RowsOf(rows, n, v)}

\* COUNT of rows ... GROUP BY name, version, scanner_name
CountInScanner(rows, n, v, s) ==
  Cardinality({i \in RowsOf(rows, n, v) : rows[i].scanner = s})

ScannerCount_rows(rows, n, v) == Cardinality(RowsOf(rows, n, v))

\* COUNT(DISTINCT scanner_name) ... GROUP BY name, version
ScannerCount(rows, n, v) == Cardinality(ScannersOf(rows, n, v))

\* the rows returned by find_exact_matches (their order is not modelled)
find_exact_matches(rows) ==
  { [name |-> k[1], version |-> k[2],
     found_in |-> ScannersOf(rows, k[1], k[2]),
     scanner_count |-> ScannerCount(rows, k[1], k[2]),
     duplicate_counts |-> [s \in ScannersOf(rows, k[1], k[2]) |->
                              CountInScanner(rows, k[1], k[2], s)],
     match_type |-> "exact"]
    : k \in {kk \in KeysOf(rows) : ScannerCount(rows, kk[1], kk[2]) > 1} }

NameFilterTenths == 7
VersionFilterTenths == 5
DefaultThresholdTenths == 8

\* thresholds (in tenths) a caller passes to find_fuzzy_matches
Thresholds == {5, 8, 9}

ExceedsThreshold_ge(overall, t) == 10 * overall[1] >= t * overall[2]

\* overall_similarity > :threshold
ExceedsThreshold(overall, t) == FracGtTenths(overall, t)

\* SELECT DISTINCT name, version, scanner_name
distinct_packages(rows) ==
  {<<rows[i].name, rows[i].version, rows[i].scanner>> : i \in DOMAIN rows}

exact_match_pairs(rows) ==
  {pp \in distinct_packages(rows) \X distinct_packages(rows) :
     /\ pp[1][1] = pp[2][1]
     /\ pp[1][2] = pp[2][2]
     /\ ScannerLess(pp[1][3], pp[2][3])}

fuzzy_candidates_within(rows) ==
  LET dp == distinct_packages(rows)
      emp == exact_match_pairs(rows)
  IN {pp \in dp \X dp :
        /\ pp \notin emp
        /\ FracGtTenths(similarity(pp[1][1], pp[2][1]), NameFilterTenths)
        /\ FracGtTenths(similarity(pp[1][2], pp[2][2]), VersionFilterTenths)
        /\ (pp[1][1] # pp[2][1] \/ pp[1][2] # pp[2][2])}

\* the pairs of the CTE fuzzy_candidates
fuzzy_candidates(rows) ==
  LET dp == distinct_packages(rows)
      emp == exact_match_pairs(rows)
  IN {pp \in dp \X dp :
        /\ ScannerLess(pp[1][3], pp[2][3])
        /\ pp \notin emp
        /\ FracGtTenths(similarity(pp[1][1], pp[2][1]), NameFilterTenths)
        /\ FracGtTenths(similarity(pp[1][2], pp[2][2]), VersionFilterTenths)
        /\ (pp[1][1] # pp[2][1] \/ pp[1][2] # pp[2][2])}

\* a row of the final SELECT (the scores as the query computes them, before
\* the rounding of the returned dictionary)
FuzzyRow(pp) ==
  LET ns == LevSimilarity(pp[1][1], pp[2][1])
      vs == LevSimilarity(pp[1][2], pp[2][2])
  IN [name |-> pp[1][1], version |-> pp[1][2], scanner |-> pp[1][3],
      similar_to |-> [name |-> pp[2][1], version |-> pp[2][2], scanner |-> pp[2][3]],
      name_similarity |-> ns, version_similarity |-> vs,
      overall_similarity |-> Overall(ns, vs)]

\* the rows of the final SELECT whose overall_similarity exceeds :threshold
\* (t tenths)
FuzzyRows(rows, t) ==
  {fr \in {FuzzyRow(pp) : pp \in fuzzy_candidates(rows)} :
     ExceedsThreshold(fr.overall_similarity, t)}

\* a >= b for fractions <<numerator, denominator>>
FracGe(a, b) == a[1] * b[2] >= b[1] * a[2]

\* ORDER BY overall_similarity DESC LIMIT limit: the results the query may
\* return (rows with equal scores come in any order)
LimitedResults(all, limit) ==
  IF Cardinality(all) <= limit THEN {all}
  ELSE {kept \in SUBSET all :
          /\ Cardinality(kept) = limit
          /\ \A a \in kept, b \in all \ kept :
               FracGe(a.overall_similarity, b.overall_similarity)}

ResultLimit == 1000

\* the rows returned by find_fuzzy_matches with threshold t tenths
find_fuzzy_matches(rows, t) ==
  LET all == FuzzyRows(rows, t)
  IN IF Cardinality(all) <= ResultLimit THEN all
     ELSE CHOOSE kept \in LimitedResults(all, ResultLimit) : TRUE

\* find_unique_packages: scanner -> the (name, version) reported by that
\* scanner only
find_unique_packages(rows) ==
  LET uniq == {p \in distinct_packages(rows) : ScannerCount(rows, p[1], p[2]) = 1}
  IN [s \in {p[3] : p \in uniq} |-> {<<p[1], p[2]>> : p \in {q \in uniq : q[3] = s}}]

\* get_package_counts: scanner -> COUNT of its rows
get_package_counts(rows) ==
  [s \in {rows[i].scanner : i \in DOMAIN rows} |->
     Cardinality({i \in DOMAIN rows : rows[i].scanner = s})]

\* max(0, common_ratio * 100 - unique_ratio * 10) as a fraction over the
\* scanner's total: (100 * exact + 50 * fuzzy - 10 * unique) / total
Score(exact_count, fuzzy_count, unique_count, total) ==
  IF total = 0 THEN <<0, 1>>
  ELSE <<Max2(0, 100 * exact_count + 50 * fuzzy_count - 10 * unique_count), total>>

analyze_scan_packages(rows) ==
  LET exact == find_exact_matches(rows)
      fuzzy == find_fuzzy_matches(rows, DefaultThresholdTenths)
      unique == find_unique_packages(rows)
      total == get_package_counts(rows)
  IN [common_packages |-> exact,
      fuzzy_matches |-> fuzzy,
      unique_packages |-> unique,
      total_counts |-> total,
      scores |-> [s \in DOMAIN total |->
         Score(Cardinality({m \in exact : s \in m.found_in}),
               Cardinality({m \in fuzzy : m.scanner = s \/ m.similar_to.scanner = s}),
               IF s \in DOMAIN unique THEN Cardinality(unique[s]) ELSE 0,
               total[s])]]

(***************************************************************************)
(* Initial state: a scan whose scanners have stored nothing yet.           *)
(***************************************************************************)
NoDoc == [kind |-> "none"]

Init ==
  /\ packages = <<>>
  /\ dependencies = {}
  /\ merged_sbom = NoDoc
  /\ last_call = [op |-> "none"]

(***************************************************************************)
(* save_packages, as run_scan calls it: one scanner after the other, each  *)
(* scanner once per scan.                                                  *)
(***************************************************************************)
NewRows(s, pkgs) ==
  [i \in DOMAIN pkgs |->
     [scanner |-> s, original_ref |-> i, name |-> pkgs[i].name,
      version |-> pkgs[i].version, purl |-> pkgs[i].purl,
      primary |-> pkgs[i].primary, match_status |-> "unique"]]

PackageLists(catalog, n) == UNION {[1..k -> catalog] : k \in 1..n}

save_packages(s, pkgs) ==
  /\ packages' = SelectSeq(packages, LAMBDA r : r.scanner # s) \o NewRows(s, pkgs)
  /\ last_call' = [op |-> "save_packages", scanner |-> s]
  /\ UNCHANGED <<dependencies, merged_sbom>>

\* the scan stores its packages before any analysis or merge is requested
ScanRunning == last_call.op \in {"none", "save_packages", "save_dependencies"}

\* reports[s] is the set of packages scanner s may find
SavePackages(reports) ==
  \E s \in DOMAIN reports :
    /\ ScanRunning
    /\ \A i \in DOMAIN packages : RunOrder(packages[i].scanner) < RunOrder(s)
    /\ Len(packages) < MaxRows
    /\ \E pkgs \in PackageLists(reports[s], Min2(MaxReported, MaxRows - Len(packages))) :
         save_packages(s, pkgs)

(***************************************************************************)
(* The analysis operations of DatabaseService.                             *)
(***************************************************************************)
FindExactMatches ==
  /\ last_call' = [op |-> "find_exact_matches", result |-> find_exact_matches(packages)]
  /\ UNCHANGED <<packages, dependencies, merged_sbom>>

FindFuzzyMatches ==
  \E t \in Thresholds :
    /\ last_call' = [op |-> "find_fuzzy_matches", threshold |-> t,
                     result |-> find_fuzzy_matches(packages, t)]
    /\ UNCHANGED <<packages, dependencies, merged_sbom>>

FindUniquePackages ==
  /\ last_call' = [op |-> "find_unique_packages", result |-> find_unique_packages(packages)]
  /\ UNCHANGED <<packages, dependencies, merged_sbom>>

AnalyzeScanPackages ==
  /\ last_call' = [op |-> "analyze_scan_packages", result |-> analyze_scan_packages(packages)]
  /\ UNCHANGED <<packages, dependencies, merged_sbom>>

SaveMatchPackages == SavePackages([s \in Scanners |-> MatchCatalog])

NextMatch ==
  \/ SaveMatchPackages
  \/ FindExactMatches
  \/ FindFuzzyMatches
  \/ FindUniquePackages
  \/ AnalyzeScanPackages

SpecMatch == Init /\ [][NextMatch]_vars

(***************************************************************************)
(* Merge engine (SBOMMerge).                                               *)
(***************************************************************************)
P_none == <<>>
P_npm == <<"p", "k", "g", ":", "n", "p", "m", "/", "a">>
P_GHA == <<"p", "k", "g", ":", "G", "i", "t", "H", "u", "b", "A", "c", "t", "i", "o", "n", "s", "/", "a">>

GithubActionsNamespace == <<"p", "k", "g", ":", "g", "i", "t", "h", "u", "b", "a", "c", "t", "i", "o", "n", "s">>

IsGithubActionsPurl_cased(purl) ==
  purl # <<>> /\ Contains(purl, GithubActionsNamespace)

\* pkg.purl and 'pkg:githubactions' in pkg.purl.lower()
IsGithubActionsPurl(purl) ==
  purl # <<>> /\ Contains(LowerStr(purl), GithubActionsNamespace)

github_action_patterns ==
  << <<"a", "c", "t", "i", "o", "n", "s", "/">>,
     <<"g", "i", "t", "h", "u", "b", "/">>,
     <<".", "g", "i", "t", "h", "u", "b", "/">>,
     <<"w", "o", "r", "k", "f", "l", "o", "w", "/">>,
     <<"a", "c", "t", "i", "o", "n", "-">>,
     <<"/", "a", "p", "p", "/", "t", "e", "m", "p">>,
     <<"a", "p", "p", "/", "t", "e", "m", "p">>,
     <<"t", "e", "m", "p">>,
     <<".", "y", "a", "m", "l">>,
     <<"s", "e", "t", "u", "p">>,
     <<"c", "o", "m", ".", "g", "i", "t", "h", "u", "b">> >>

\* _is_github_action_package(package_name)
IsGithubActionPackage(name) ==
  /\ name # <<>>
  /\ \E k \in DOMAIN github_action_patterns :
       Contains(LowerStr(name), github_action_patterns[k])

\* f"pkg:{pkg.purl}" if pkg.purl else f"{pkg.name}@{pkg.version}"
BomRef(pkg) ==
  IF pkg.purl # <<>> THEN <<"p", "k", "g", ":">> \o pkg.purl
  ELSE pkg.name \o <<"@">> \o pkg.version

\* the component entry of a package row (type, cpe, description and
\* licenses are copied from the row and left out here)
BuildComponent(pkg) ==
  [bom_ref |-> BomRef(pkg), name |-> pkg.name, version |-> pkg.version,
   purl |-> pkg.purl, match_status |-> pkg.match_status,
   occurrence_count |-> pkg.occurrence_count, scanner_name |-> pkg.scanner_name]

(***************************************************************************)
(* update_match_status: the classification of section 4.2 written to the   *)
(* match_status column.                                                    *)
(***************************************************************************)
\* the rows left for the fuzzy stage: not in an exact group, name and
\* version not empty
NonExactRows(rows) ==
  SelectSeq(rows, LAMBDA q : ScannerCount(rows, q.name, q.version) < 2
                             /\ q.name # <<>> /\ q.version # <<>>)

MatchStatusOf(rows, fuzzy, i) ==
  LET r == rows[i]
  IN IF r.name = <<>> \/ r.version = <<>> THEN "unique"
     ELSE IF ScannerCount(rows, r.name, r.version) >= 2 THEN "exact"
     ELSE IF \E m \in fuzzy :
               \/ (m.name = r.name /\ m.version = r.version /\ m.scanner = r.scanner)
               \/ (m.similar_to.name = r.name /\ m.similar_to.version = r.version
                   /\ m.similar_to.scanner = r.scanner)
          THEN "fuzzy"
     ELSE "unique"

update_match_status(rows) ==
  LET fuzzy == find_fuzzy_matches(NonExactRows(rows), DefaultThresholdTenths)
  IN [i \in DOMAIN rows |-> [rows[i] EXCEPT !.match_status = MatchStatusOf(rows, fuzzy, i)]]

(***************************************************************************)
(* The package query of the merge:                                         *)
(*   COUNT of rows OVER (PARTITION BY name, version) as occurrence_count   *)
(*   ORDER BY match_status DESC, occurrence_count DESC, name, version      *)
(***************************************************************************)
OccurrenceCount(rows, i) == Cardinality(RowsOf(rows, rows[i].name, rows[i].version))

\* position of a match_status under ORDER BY match_status DESC
StatusOrder(st) == CASE st = "unique" -> 1 [] st = "fuzzy" -> 2 [] OTHER -> 3

\* row i sorts strictly before row j
SortsBefore(rows, i, j) ==
  LET si == StatusOrder(rows[i].match_status)
      sj == StatusOrder(rows[j].match_status)
      oi == OccurrenceCount(rows, i)
      oj == OccurrenceCount(rows, j)
  IN \/ si < sj
     \/ si = sj /\ oi > oj
     \/ si = sj /\ oi = oj /\ StrLess(rows[i].name, rows[j].name)
     \/ si = sj /\ oi = oj /\ rows[i].name = rows[j].name
        /\ StrLess(rows[i].version, rows[j].version)

\* the orders in which the query may return the rows: rows that tie on the
\* sort key come in any order
QueryOrders(rows) ==
  {p \in Perms(DOMAIN rows) :
     \A a, b \in DOMAIN p : a < b => ~SortsBefore(rows, p[b], p[a])}

PackagesData(rows, order) ==
  [k \in DOMAIN order |->
     [name |-> rows[order[k]].name, version |-> rows[order[k]].version,
      purl |-> rows[order[k]].purl, match_status |-> rows[order[k]].match_status,
      original_ref |-> rows[order[k]].original_ref,
      scanner_name |-> rows[order[k]].scanner, primary |-> rows[order[k]].primary,
      occurrence_count |-> OccurrenceCount(rows, order[k])]]

(***************************************************************************)
(* Selection: the two passes over packages_data.  The accumulator holds    *)
(* merged_components, seen_packages, package_id_map and primary_component. *)
(***************************************************************************)
NoComponent == [kind |-> "none"]

EmptyAcc ==
  [merged_components |-> <<>>, seen_packages |-> {},
   package_id_map |-> <<>>, primary_component |-> NoComponent]

\* append the component of pkg, record its key and its reference
AddComponent(acc, pkg) ==
  LET component == BuildComponent(pkg)
  IN [merged_components |-> Append(acc.merged_components, component),
      seen_packages |-> acc.seen_packages \cup {<<pkg.name, pkg.version>>},
      package_id_map |-> Put(acc.package_id_map,
                             <<pkg.scanner_name, pkg.original_ref>>, component.bom_ref),
      primary_component |->
         IF pkg.primary = "true" /\ acc.primary_component = NoComponent
         THEN component ELSE acc.primary_component]

FirstPass_skipped(data) == EmptyAcc

\* FIRST PASS: the first primary row whose purl is not in the GitHub
\* Actions namespace
FirstPass(data) ==
  LET cand == {k \in DOMAIN data :
                 data[k].primary = "true" /\ ~IsGithubActionsPurl(data[k].purl)}
  IN IF cand = {} THEN EmptyAcc
     ELSE AddComponent(EmptyAcc, data[CHOOSE k \in cand : \A l \in cand : k <= l])

\* a row whose (name, version) is already in seen_packages
SeenStep(acc, pkg) ==
  LET same == {c \in DOMAIN acc.merged_components :
                 /\ acc.merged_components[c].name = pkg.name
                 /\ acc.merged_components[c].version = pkg.version}
  IN [acc EXCEPT
        !.package_id_map = Put(acc.package_id_map,
                               <<pkg.scanner_name, pkg.original_ref>>, BomRef(pkg)),
        !.primary_component =
           IF pkg.primary = "true" /\ acc.primary_component = NoComponent /\ same # {}
           THEN acc.merged_components[CHOOSE c \in same : \A e \in same : c <= e]
           ELSE acc.primary_component]

UniqueIncluded_all(pkg, policy) == policy.include_all_unique

\* the unique branch of _custom_merge
UniqueIncluded(pkg, policy) ==
  /\ ~(policy.exclude_github_actions /\ IsGithubActionPackage(pkg.name))
  /\ policy.include_all_unique

UniqueSelected_anyscanner(pkg, selected) ==
  \E e \in selected : e[2] = pkg.name /\ e[3] = pkg.version

\* the unique branch of _custom_merge_with_selections
UniqueSelected(pkg, selected) ==
  <<pkg.scanner_name, pkg.name, pkg.version>> \in selected

\* one iteration of the SECOND PASS; wanted tells whether the unique branch
\* takes the row
SecondPassStep(acc, pkg, wanted) ==
  IF <<pkg.name, pkg.version>> \in acc.seen_packages THEN SeenStep(acc, pkg)
  ELSE IF pkg.match_status = "exact"
    THEN (IF IsGithubActionsPurl(pkg.purl) THEN acc ELSE AddComponent(acc, pkg))
  ELSE IF pkg.match_status = "fuzzy"
    THEN (IF pkg.occurrence_count >= 2 /\ ~IsGithubActionsPurl(pkg.purl)
          THEN AddComponent(acc, pkg) ELSE acc)
  ELSE IF pkg.match_status = "unique"
    THEN (IF wanted /\ ~IsGithubActionsPurl(pkg.purl)
          THEN AddComponent(acc, pkg) ELSE acc)
  ELSE acc

\* how = [policy |-> ...] for _custom_merge, [selected |-> ...] for
\* _custom_merge_with_selections
Wanted(pkg, how) ==
  IF "policy" \in DOMAIN how THEN UniqueIncluded(pkg, how.policy)
  ELSE UniqueSelected(pkg, how.selected)

RECURSIVE SecondPass(_, _, _, _)
SecondPass(acc, data, k, how) ==
  IF k > Len(data) THEN acc
  ELSE SecondPass(SecondPassStep(acc, data[k], Wanted(data[k], how)), data, k + 1, how)

(***************************************************************************)
(* Dependency reconciliation.  A dependencies row is [parent_id, child_id];*)
(* the query joins both ends with their packages rows.                     *)
(***************************************************************************)
DependenciesData(rows, deps, dorder) ==
  [k \in DOMAIN dorder |->
     [parent_scanner |-> rows[dorder[k].parent_id].scanner,
      parent_ref |-> rows[dorder[k].parent_id].original_ref,
      child_scanner |-> rows[dorder[k].child_id].scanner,
      child_ref |-> rows[dorder[k].child_id].original_ref]]

\* the translated (parent, child) pairs in the order of the rows, without
\* repetitions
RECURSIVE MergedDependencies(_, _, _, _)
MergedDependencies(map, depdata, k, out) ==
  IF k > Len(depdata) THEN out
  ELSE LET pk == <<depdata[k].parent_scanner, depdata[k].parent_ref>>
           ck == <<depdata[k].child_scanner, depdata[k].child_ref>>
       IN IF pk \notin DOMAIN map \/ ck \notin DOMAIN map
          THEN MergedDependencies(map, depdata, k + 1, out)
          ELSE LET e == <<map[pk], map[ck]>>
               IN MergedDependencies(map, depdata, k + 1,
                    IF e \in Range(out) THEN out ELSE Append(out, e))

RECURSIVE Consolidate_ungrouped(_, _, _)
Consolidate_ungrouped(edges, k, out) ==
  IF k > Len(edges) THEN out
  ELSE Consolidate_ungrouped(edges, k + 1,
         Append(out, [ref |-> edges[k][1], dependsOn |-> {edges[k][2]}]))

\* one entry per parent in the order of first appearance; dependsOn is the
\* set of its children (the order of list(set(...)) is not modelled)
RECURSIVE Consolidate(_, _, _)
Consolidate(edges, k, out) ==
  IF k > Len(edges) THEN out
  ELSE IF \E e \in DOMAIN out : out[e].ref = edges[k][1]
    THEN Consolidate(edges, k + 1,
           [e \in DOMAIN out |->
              IF out[e].ref = edges[k][1]
              THEN [out[e] EXCEPT !.dependsOn = @ \cup {edges[k][2]}]
              ELSE out[e]])
  ELSE Consolidate(edges, k + 1,
         Append(out, [ref |-> edges[k][1], dependsOn |-> {edges[k][2]}]))

(***************************************************************************)
(* Document assembly.                                                      *)
(***************************************************************************)
MergedSbom(acc, depdata, props) ==
  LET consolidated_deps ==
        Consolidate(MergedDependencies(acc.package_id_map, depdata, 1, <<>>), 1, <<>>)
  IN [kind |-> "doc",
      metadata |-> [properties |->
                      [total_components |-> Len(acc.merged_components),
                       total_dependencies |-> Len(consolidated_deps),
                       policy |-> props],
                    component |-> acc.primary_component],
      components |-> acc.merged_components,
      dependencies |-> consolidated_deps]

\* the document _custom_merge builds from the classified rows
CustomMergeDoc(rows, deps, policy, order, dorder) ==
  LET data == PackagesData(rows, order)
  IN MergedSbom(SecondPass(FirstPass(data), data, 1, [policy |-> policy]),
                DependenciesData(rows, deps, dorder),
                [include_all_unique |-> policy.include_all_unique,
                 exclude_github_actions |-> policy.exclude_github_actions])

\* the document _custom_merge_with_selections builds
CustomMergeWithSelectionsDoc(rows, deps, selected, order, dorder) ==
  LET data == PackagesData(rows, order)
  IN MergedSbom(SecondPass(FirstPass(data), data, 1, [selected |-> selected]),
                DependenciesData(rows, deps, dorder),
                [merge_type |-> "user_selected"])

(***************************************************************************)
(* Scenario of the merge: what the scanners may report.                    *)
(***************************************************************************)
MergeScanners == {"trivy", "syft"}

\* trivy scans the project itself and reports it as the primary component
\* temp@1.2; syft reports the same packages with other purls
MergeCatalog ==
  [s \in MergeScanners |->
     IF s = "trivy"
     THEN {Pkg(S_ab, V_12, P_none, "false"),
           Pkg(S_ab, V_12, P_GHA, "false"),
           Pkg(S_temp, V_12, P_none, "true")}
     ELSE {Pkg(S_ab, V_12, P_npm, "false"),
           Pkg(S_temp, V_12, P_none, "false"),
           Pkg(S_Temp, V_12, P_npm, "false")}]

Policies == [include_all_unique : BOOLEAN, exclude_github_actions : BOOLEAN]

MaxSelected == 1

\* the selected_unique_packages a user may post
Selections ==
  {sel \in SUBSET (MergeScanners \X {S_ab, S_temp, S_Temp} \X {V_12}) :
     Cardinality(sel) <= MaxSelected}

\* where a merge may raise: nowhere, inside update_match_status, or in a
\* query or the write of merged_sbom after the classification is committed
FailPoints == {"none", "classification", "store"}

SaveMergePackages == SavePackages(MergeCatalog)

(***************************************************************************)
(* save_dependencies, called by run_scan right after save_packages of the  *)
(* same scanner: the edges join two packages of that scanner.              *)
(***************************************************************************)
save_dependencies(s, edges) ==
  /\ dependencies' = dependencies \cup edges
  /\ last_call' = [op |-> "save_dependencies", scanner |-> s]
  /\ UNCHANGED <<packages, merged_sbom>>

SaveDependencies ==
  /\ ScanRunning
  /\ packages # <<>>
  /\ LET s == packages[Len(packages)].scanner
         ids == {i \in DOMAIN packages : packages[i].scanner = s}
     IN /\ \A d \in dependencies : d.parent_id \notin ids
        /\ \E edges \in SUBSET {e \in [parent_id : ids, child_id : ids] :
                                  e.parent_id # e.child_id} :
             /\ edges # {}
             /\ Cardinality(dependencies \cup edges) <= MaxDeps
             /\ save_dependencies(s, edges)

(***************************************************************************)
(* merge_sboms / merge_sboms_with_selections.                              *)
(***************************************************************************)
EmptyResult == [kind |-> "empty"]

NoComponentsError ==
  [kind |-> "error", error |-> "Custom merge failed to produce valid SBOM",
   details |-> "No components found"]

MergeResult_unchecked(merged) == merged

\* merge_sboms: if merged_sbom and merged_sbom.get("components"): return
\* merged_sbom, else the error value
MergeResult(merged) ==
  IF merged.kind = "doc" /\ merged.components # <<>> THEN merged
  ELSE NoComponentsError

\* _custom_merge / _custom_merge_with_selections followed by the check of
\* merge_sboms / merge_sboms_with_selections.  rows is the packages table
\* as update_match_status leaves it, call is the record of the call, how
\* tells the unique branch what to take.  The merge classifies, queries,
\* builds the document and stores it; an exception leaves merged_sbom alone
\* and makes the merge return {}.
RunMerge(rows, call, how) ==
  /\ UNCHANGED dependencies
  /\ \/ \E order \in QueryOrders(rows), dorder \in Perms(dependencies) :
          LET doc == IF "policy" \in DOMAIN how
                     THEN CustomMergeDoc(rows, dependencies, how.policy, order, dorder)
                     ELSE CustomMergeWithSelectionsDoc(rows, dependencies,
                                                       how.selected, order, dorder)
          IN /\ packages' = rows
             /\ merged_sbom' = doc
             /\ last_call' = [call EXCEPT !.raised = FALSE, !.result = MergeResult(doc)]
     \/ \E fail \in FailPoints \ {"none"} :
          /\ packages' = IF fail = "classification" THEN packages ELSE rows
          /\ merged_sbom' = merged_sbom
          /\ last_call' = [op |-> call.op, merged |-> TRUE, raised |-> TRUE,
                           result |-> MergeResult(EmptyResult)]

\* SBOMService.get_merged_sbom_with_selections -> merge_sboms_with_selections
MergeSbomsWithSelections ==
  LET rows == update_match_status(packages)
  IN \E selected \in Selections :
       RunMerge(rows,
                [op |-> "merge_sboms_with_selections", selected |-> selected,
                 merged |-> TRUE, raised |-> FALSE, result |-> NoDoc],
                [selected |-> selected])

ServesStored_always(force_regenerate) == merged_sbom # NoDoc

\* if not force_regenerate: ... if row and row.merged_sbom: return it
ServesStored(force_regenerate) == ~force_regenerate /\ merged_sbom # NoDoc

\* SBOMService.get_merged_sbom -> merge_sboms, unless a stored document is
\* served
GetMergedSbom ==
  LET rows == update_match_status(packages)
  IN \E policy \in Policies, force_regenerate \in BOOLEAN :
       IF ServesStored(force_regenerate)
       THEN /\ last_call' = [op |-> "get_merged_sbom", policy |-> policy,
                             force_regenerate |-> force_regenerate,
                             merged |-> FALSE, raised |-> FALSE, result |-> merged_sbom]
            /\ UNCHANGED <<packages, dependencies, merged_sbom>>
       ELSE RunMerge(rows,
                     [op |-> "get_merged_sbom", policy |-> policy,
                      force_regenerate |-> force_regenerate,
                      merged |-> TRUE, raised |-> FALSE, result |-> NoDoc],
                     [policy |-> policy])

Next ==
  \/ SaveMergePackages
  \/ SaveDependencies
  \/ GetMergedSbom
  \/ MergeSbomsWithSelections

Spec == Init /\ [][Next]_vars

(***************************************************************************)
(* Properties of the matcher (specification SpecMatch).                    *)
(***************************************************************************)
\* the scanners that stored a package with this name and version
ReportingScanners(n, v) ==
  {s \in Scanners : \E i \in DOMAIN packages :
     packages[i].scanner = s /\ packages[i].name = n /\ packages[i].version = v}

\* C7: find_exact_matches reports a (name, version) if and only if at least
\* two distinct scanners stored it, once, and the scanner_count it reports
\* is the number of distinct scanners, whatever the number of rows a scanner
\* stored for it.
C7_ExactIffTwoScanners ==
  last_call.op = "find_exact_matches" =>
    \A i \in DOMAIN packages :
      LET n == packages[i].name
          v == packages[i].version
          hits == {m \in last_call.result : m.name = n /\ m.version = v}
      IN /\ (hits # {}) <=> (Cardinality(ReportingScanners(n, v)) >= 2)
         /\ Cardinality(hits) <= 1
         /\ \A m \in hits : /\ m.scanner_count = Cardinality(ReportingScanners(n, v))
                            /\ m.found_in = ReportingScanners(n, v)

\* an exact group of two scanners one of which stored the package twice
C7_Witness ==
  /\ last_call.op = "find_exact_matches"
  /\ \E m \in last_call.result :
       /\ m.scanner_count = 2
       /\ Cardinality(RowsOf(packages, m.name, m.version)) = 3

\* the score of the claim: the mean of the two edit-distance similarities,
\* each 0 for two empty strings, as the fraction <<numerator, denominator>>
EditSimilarity(a, b) ==
  IF Len(a) = 0 /\ Len(b) = 0 THEN <<0, 1>>
  ELSE LET m == IF Len(a) >= Len(b) THEN Len(a) ELSE Len(b)
       IN <<m - levenshtein(a, b), m>>

OverallScore(m) ==
  LET ns == EditSimilarity(m.name, m.similar_to.name)
      vs == EditSimilarity(m.version, m.similar_to.version)
  IN <<ns[1] * vs[2] + vs[1] * ns[2], 2 * ns[2] * vs[2]>>

\* C9: find_fuzzy_matches with threshold t returns no pair whose overall
\* score is t or less; a pair scoring exactly t is not returned.
C9_FuzzyAboveThreshold ==
  last_call.op = "find_fuzzy_matches" =>
    \A m \in last_call.result :
      10 * OverallScore(m)[1] > last_call.threshold * OverallScore(m)[2]

\* a stored pair that passes the trigram filters and scores exactly the
\* threshold 0.8 is left out, while another pair is returned
C9_Witness ==
  /\ last_call.op = "find_fuzzy_matches"
  /\ last_call.threshold = DefaultThresholdTenths
  /\ last_call.result # {}
  /\ \E pp \in fuzzy_candidates(packages) :
       /\ 10 * OverallScore(FuzzyRow(pp))[1]
            = DefaultThresholdTenths * OverallScore(FuzzyRow(pp))[2]
       /\ FuzzyRow(pp) \notin last_call.result

\* the three listings of analyze_scan_packages for the stored row i
InExact(res, i) ==
  \E m \in res.common_packages :
    m.name = packages[i].name /\ m.version = packages[i].version

InFuzzy(res, i) ==
  \E m \in res.fuzzy_matches :
    \/ /\ m.name = packages[i].name
       /\ m.version = packages[i].version
       /\ m.scanner = packages[i].scanner
    \/ /\ m.similar_to.name = packages[i].name
       /\ m.similar_to.version = packages[i].version
       /\ m.similar_to.scanner = packages[i].scanner

InUnique(res, i) ==
  /\ packages[i].scanner \in DOMAIN res.unique_packages
  /\ <<packages[i].name, packages[i].version>> \in res.unique_packages[packages[i].scanner]

\* C10: in the result of analyze_scan_packages every stored package is
\* listed under exactly one of exact, fuzzy and unique.
C10_ExactlyOneClassification ==
  last_call.op = "analyze_scan_packages" =>
    \A i \in DOMAIN packages :
      LET res == last_call.result
      IN /\ InExact(res, i) \/ InFuzzy(res, i) \/ InUnique(res, i)
         /\ ~(InExact(res, i) /\ InFuzzy(res, i))
         /\ ~(InExact(res, i) /\ InUnique(res, i))
         /\ ~(InFuzzy(res, i) /\ InUnique(res, i))

(***************************************************************************)
(* Properties of the merge (specification Spec).                           *)
(***************************************************************************)
MergeOps == {"get_merged_sbom", "merge_sboms_with_selections"}

\* the last call ran a merge that built and stored a document, which is
\* now merged_sbom
MergeReturned ==
  /\ last_call.op \in MergeOps
  /\ last_call.merged
  /\ ~last_call.raised

BomRefsOf(doc) == {doc.components[c].bom_ref : c \in DOMAIN doc.components}

\* C1: in the document a merge builds, every ref and every element of every
\* dependsOn in dependencies is the bom-ref of an entry of components.
C1_DependencyIntegrity ==
  MergeReturned =>
    \A d \in DOMAIN merged_sbom.dependencies :
      /\ merged_sbom.dependencies[d].ref \in BomRefsOf(merged_sbom)
      /\ merged_sbom.dependencies[d].dependsOn \subseteq BomRefsOf(merged_sbom)

\* the stored rows flagged primary
PrimaryRows == {i \in DOMAIN packages : packages[i].primary = "true"}

\* the component entry of the stored row i
EntryOf(i) == BuildComponent(PackagesData(packages, [k \in DOMAIN packages |-> k])[i])

\* C2: when exactly one stored package is primary and its purl is not in
\* the GitHub Actions namespace, a merge with any policy or selection puts
\* its entry in components and in metadata.component.
C2_PrimaryPreserved ==
  MergeReturned =>
    \A i \in PrimaryRows :
      (PrimaryRows = {i} /\ ~IsGithubActionsPurl(packages[i].purl)) =>
        /\ \E c \in DOMAIN merged_sbom.components : merged_sbom.components[c] = EntryOf(i)
        /\ merged_sbom.metadata.component = EntryOf(i)

\* the only primary package is unique, its name matches a noise pattern and
\* the merge ran with include_all_unique off and exclude_github_actions on
C2_Witness ==
  /\ MergeReturned
  /\ last_call.op = "get_merged_sbom"
  /\ ~last_call.policy.include_all_unique
  /\ last_call.policy.exclude_github_actions
  /\ \E i \in PrimaryRows :
       /\ PrimaryRows = {i}
       /\ packages[i].match_status = "unique"
       /\ IsGithubActionPackage(packages[i].name)
       /\ merged_sbom.metadata.component = EntryOf(i)
  /\ Len(packages) > 1

\* two consecutive merges with the same request on unchanged data
SameMergeTwice ==
  /\ MergeReturned
  /\ MergeReturned'
  /\ last_call'.op = last_call.op
  /\ last_call.op = "get_merged_sbom" => last_call'.policy = last_call.policy
  /\ last_call.op = "merge_sboms_with_selections" => last_call'.selected = last_call.selected
  /\ packages' = packages
  /\ dependencies' = dependencies

\* C3: two merges with the same policy and no change of the stored data in
\* between build identical components and dependencies lists.
C3_Idempotence ==
  [][SameMergeTwice =>
       /\ merged_sbom'.components = merged_sbom.components
       /\ merged_sbom'.dependencies = merged_sbom.dependencies]_vars

\* every component of small is a component of large with the same bom-ref,
\* and what only large holds is unique
Monotone(small, large) ==
  /\ \A c \in DOMAIN small.components :
       \E d \in DOMAIN large.components :
         /\ large.components[d].name = small.components[c].name
         /\ large.components[d].version = small.components[c].version
         /\ large.components[d].bom_ref = small.components[c].bom_ref
  /\ \A d \in DOMAIN large.components :
       (\A c \in DOMAIN small.components :
          \/ small.components[c].name # large.components[d].name
          \/ small.components[c].version # large.components[d].version)
       => large.components[d].match_status = "unique"

\* C4: for the same stored data and the same exclude_github_actions, the
\* components of the merge with include_all_unique off are components of
\* the merge with include_all_unique on, which adds unique packages only.
C4_IncludeAllUniqueMonotone ==
  [][(/\ MergeReturned
      /\ MergeReturned'
      /\ last_call.op = "get_merged_sbom"
      /\ last_call'.op = "get_merged_sbom"
      /\ packages' = packages
      /\ dependencies' = dependencies
      /\ last_call'.policy.exclude_github_actions = last_call.policy.exclude_github_actions
      /\ ~last_call.policy.include_all_unique
      /\ last_call'.policy.include_all_unique)
     => Monotone(merged_sbom, merged_sbom')]_vars

\* C5: a merge on no stored packages, or one whose selection leaves no
\* component, returns the error value: it carries an error key and no
\* components; a returned document never has an empty components list.
C5_EmptyMergeIsError ==
  (last_call.op \in MergeOps /\ last_call.merged) =>
    /\ \/ /\ last_call.result.kind = "error"
          /\ "error" \in DOMAIN last_call.result
          /\ "components" \notin DOMAIN last_call.result
       \/ /\ last_call.result.kind = "doc"
          /\ last_call.result.components # <<>>
    /\ packages = <<>> => last_call.result.kind = "error"
    /\ (~last_call.raised /\ merged_sbom.components = <<>>) => last_call.result.kind = "error"

\* packages are stored, the selection left no component and the call
\* returned the error value
C5_Witness ==
  /\ MergeReturned
  /\ packages # <<>>
  /\ merged_sbom.components = <<>>
  /\ last_call.result = NoComponentsError

\* C6: a merge that reports a failure leaves the stored merged document as
\* it was before the call.
C6_FailedMergePersistsNothing ==
  [][(/\ last_call'.op \in MergeOps
      /\ last_call'.merged
      /\ last_call'.result.kind = "error")
     => merged_sbom' = merged_sbom]_vars

\* C8: after a merge with the default policy, a (name, version) stored by
\* k >= 2 scanners has exactly one component, whose occurrence count is k.
C8_OneComponentCountingSources ==
  (/\ MergeReturned
   /\ last_call.op = "get_merged_sbom"
   /\ last_call.policy = [include_all_unique |-> TRUE, exclude_github_actions |-> FALSE])
  => \A i \in DOMAIN packages :
       LET n == packages[i].name
           v == packages[i].version
           k == Cardinality(ReportingScanners(n, v))
           hits == {c \in DOMAIN merged_sbom.components :
                      /\ merged_sbom.components[c].name = n
                      /\ merged_sbom.components[c].version = v}
       IN k >= 2 =>
            /\ Cardinality(hits) = 1
            /\ \A c \in hits : merged_sbom.components[c].occurrence_count = k

\* the merged document holds a component with the name and version of the
\* stored row i
Included(i) ==
  \E c \in DOMAIN merged_sbom.components :
    /\ merged_sbom.components[c].name = packages[i].name
    /\ merged_sbom.components[c].version = packages[i].version

\* C11: at merge time a package with match status fuzzy has an occurrence
\* count of at least 2, and when its purl is not in the GitHub Actions
\* namespace the merged components hold it, for any policy.
C11_FuzzyIncluded ==
  MergeReturned =>
    \A i \in DOMAIN packages :
      (packages[i].match_status = "fuzzy" /\ ~IsGithubActionsPurl(packages[i].purl)) =>
        /\ OccurrenceCount(packages, i) >= 2
        /\ Included(i)

\* the stored row i is unique, its name matches a noise pattern and no
\* stored row with its name and version is primary
NoisyUnique(i) ==
  /\ packages[i].match_status = "unique"
  /\ IsGithubActionPackage(packages[i].name)
  /\ \A j \in RowsOf(packages, packages[i].name, packages[i].version) :
       packages[j].primary # "true"

\* C12: after get_merged_sbom ran a merge, a non-primary unique package
\* with a noise name is absent when exclude_github_actions is on and present
\* when it is off and include_all_unique is on (its purl not being in the
\* GitHub Actions namespace); and between two merges of the same rows that
\* differ in exclude_github_actions only, the exact and fuzzy packages in
\* the components are the same.
C12_NoiseExclusion ==
  [][(MergeReturned' /\ last_call'.op = "get_merged_sbom") =>
       /\ \A i \in DOMAIN packages' :
            NoisyUnique(i)' =>
              /\ last_call'.policy.exclude_github_actions => ~Included(i)'
              /\ (/\ ~last_call'.policy.exclude_github_actions
                  /\ last_call'.policy.include_all_unique
                  /\ ~IsGithubActionsPurl(packages'[i].purl)) => Included(i)'
       /\ (/\ MergeReturned
           /\ last_call.op = "get_merged_sbom"
           /\ packages' = packages
           /\ last_call'.policy.include_all_unique = last_call.policy.include_all_unique
           /\ last_call'.policy.exclude_github_actions # last_call.policy.exclude_github_actions)
          => \A i \in DOMAIN packages :
               packages[i].match_status \in {"exact", "fuzzy"} =>
                 (Included(i) <=> Included(i)')]_vars

\* a merge with exclude_github_actions and include_all_unique on left a
\* noisy unique package out and kept another package
C12_Witness ==
  /\ MergeReturned
  /\ last_call.op = "get_merged_sbom"
  /\ last_call.policy.exclude_github_actions
  /\ last_call.policy.include_all_unique
  /\ merged_sbom.components # <<>>
  /\ \E i \in DOMAIN packages :
       /\ NoisyUnique(i)
       /\ ~IsGithubActionsPurl(packages[i].purl)
       /\ ~Included(i)

\* C13: get_merged_sbom with force_regenerate runs a merge under the
\* requested flags and returns its result; without force_regenerate and
\* with a stored document it runs no merge and returns the stored document
\* unchanged, whatever the requested flags.
C13_ExplicitRegeneration ==
  [][last_call'.op = "get_merged_sbom" =>
       /\ ~last_call'.merged =>
            /\ ~last_call'.force_regenerate
            /\ merged_sbom # NoDoc
            /\ last_call'.result = merged_sbom
            /\ merged_sbom' = merged_sbom
            /\ packages' = packages
       /\ (last_call'.merged /\ ~last_call'.raised) =>
            /\ last_call'.force_regenerate \/ merged_sbom = NoDoc
            /\ merged_sbom'.metadata.properties.policy = last_call'.policy
            /\ \/ last_call'.result = merged_sbom'
               \/ last_call'.result.kind = "error"
       /\ (last_call'.merged /\ last_call'.raised) =>
            last_call'.result.kind = "error"]_vars

\* a document stored by a merge with user selections is served to a
\* request without force_regenerate
C13_Witness ==
  /\ last_call.op = "get_merged_sbom"
  /\ ~last_call.merged
  /\ ~last_call.force_regenerate
  /\ ~last_call.policy.include_all_unique
  /\ last_call.result = merged_sbom
  /\ merged_sbom.metadata.properties.policy = [merge_type |-> "user_selected"]
  /\ merged_sbom.components # <<>>

(***************************************************************************)
(* Further claims checked under Spec.                                      *)
(***************************************************************************)
\* the call ran a merge in which an exception was raised
FailedInternally(call) == call.op \in MergeOps /\ call.merged /\ call.raised

\* the call ran a merge that built and stored doc, which has no component
SelectedNothing(call, doc) ==
  /\ call.op \in MergeOps
  /\ call.merged
  /\ ~call.raised
  /\ doc.components = <<>>

\* C17: a merge that selected zero components and a merge that failed
\* internally never return the same error value.
C17_DistinctFailures ==
  [][(\/ FailedInternally(last_call) /\ SelectedNothing(last_call', merged_sbom')
      \/ SelectedNothing(last_call, merged_sbom) /\ FailedInternally(last_call'))
     => last_call.result # last_call'.result]_vars

StoredScanners == {packages[i].scanner : i \in DOMAIN packages}

\* C20: when the stored packages come from fewer than two scanners,
\* find_exact_matches and find_fuzzy_matches return nothing and
\* find_unique_packages lists every distinct (name, version) stored.
C20_SingleScannerAllUnique ==
  Cardinality(StoredScanners) < 2 =>
    /\ last_call.op \in {"find_exact_matches", "find_fuzzy_matches"} =>
         last_call.result = {}
    /\ last_call.op = "find_unique_packages" =>
         /\ DOMAIN last_call.result = StoredScanners
         /\ \A s \in StoredScanners : last_call.result[s] = KeysOf(packages)
    /\ last_call.op = "analyze_scan_packages" =>
         /\ last_call.result.common_packages = {}
         /\ last_call.result.fuzzy_matches = {}
         /\ \A s \in StoredScanners : last_call.result.unique_packages[s] = KeysOf(packages)

\* one scanner stored temp and Temp with the same version, and
\* find_fuzzy_matches was called with the lowest threshold
C20_Witness ==
  /\ Cardinality(StoredScanners) = 1
  /\ last_call.op = "find_fuzzy_matches"
  /\ last_call.threshold = 5
  /\ last_call.result = {}
  /\ \E i, j \in DOMAIN packages :
       /\ packages[i].name = S_temp
       /\ packages[j].name = S_Temp
       /\ packages[i].version = packages[j].version

\* no stored row with the name and version of row i is flagged primary
NoPrimaryRow(i) ==
  \A j \in RowsOf(packages, packages[i].name, packages[i].version) :
    packages[j].primary # "true"

\* some stored row with the name and version of row i has a purl outside
\* the GitHub Actions namespace
HasSupportedRow(i) ==
  \E j \in RowsOf(packages, packages[i].name, packages[i].version) :
    ~IsGithubActionsPurl(packages[j].purl)

\* C21: after merge_sboms_with_selections a unique package that is not
\* primary is among the components exactly if its (scanner, name, version)
\* was selected and its purl is outside the GitHub Actions namespace; an
\* exact package is among them whether selected or not.
C21_SelectionDecidesUnique ==
  (MergeReturned /\ last_call.op = "merge_sboms_with_selections") =>
    \A i \in DOMAIN packages :
      /\ (packages[i].match_status = "unique" /\ NoPrimaryRow(i)) =>
           (Included(i) <=>
              /\ <<packages[i].scanner, packages[i].name, packages[i].version>>
                   \in last_call.selected
              /\ HasSupportedRow(i))
      /\ (packages[i].match_status = "exact" /\ HasSupportedRow(i)) => Included(i)

\* the selection names a unique package of trivy under syft, and the
\* package is not among the components
C21_Witness ==
  /\ MergeReturned
  /\ last_call.op = "merge_sboms_with_selections"
  /\ \E i \in DOMAIN packages :
       /\ packages[i].match_status = "unique"
       /\ packages[i].scanner = "trivy"
       /\ ~IsGithubActionsPurl(packages[i].purl)
       /\ NoPrimaryRow(i)
       /\ <<"syft", packages[i].name, packages[i].version>> \in last_call.selected
       /\ ~Included(i)

\* C22: no pair returned by find_fuzzy_matches contains a package whose
\* (name, version) is reported by two or more scanners.
C22_ExactMembersNotFuzzy ==
  last_call.op = "find_fuzzy_matches" =>
    \A m \in last_call.result :
      /\ ScannerCount(packages, m.name, m.version) < 2
      /\ ScannerCount(packages, m.similar_to.name, m.similar_to.version) < 2

(***************************************************************************)
(* Merges of a scan whose scanners report packages of the GitHub Actions   *)
(* namespace: as primary, in exact groups, as duplicates of fuzzy          *)
(* packages, and as unique packages a user may select.                     *)
(***************************************************************************)
NamespaceCatalog ==
  [s \in MergeScanners |->
     IF s = "trivy"
     THEN {Pkg(S_ab, V_12, P_GHA, "true"),
           Pkg(S_ab, V_12, P_none, "false"),
           Pkg(S_temp, V_12, P_GHA, "false")}
     ELSE {Pkg(S_ab, V_12, P_GHA, "false"),
           Pkg(S_Temp, V_12, P_npm, "false"),
           Pkg(S_Temp, V_12, P_GHA, "true")}]

SaveNamespacePackages == SavePackages(NamespaceCatalog)

NextNamespace ==
  \/ SaveNamespacePackages
  \/ GetMergedSbom
  \/ MergeSbomsWithSelections

SpecNamespace == Init /\ [][NextNamespace]_vars

\* the purl contains pkg:githubactions, in any letter case
NamespacePurl(purl) == Contains(LowerStr(purl), GithubActionsNamespace)

\* C24: no entry of components, and not metadata.component, carries a purl
\* that contains pkg:githubactions, whichever merge built the document.
C24_NoGithubActionsComponent ==
  MergeReturned =>
    /\ \A c \in DOMAIN merged_sbom.components :
         ~NamespacePurl(merged_sbom.components[c].purl)
    /\ merged_sbom.metadata.component # NoComponent =>
         ~NamespacePurl(merged_sbom.metadata.component.purl)

\* a row of the namespace is flagged primary, another row of its name and
\* version became a component, and that component is metadata.component
C24_Witness ==
  /\ MergeReturned
  /\ merged_sbom.metadata.component # NoComponent
  /\ \E i \in DOMAIN packages :
       /\ packages[i].primary = "true"
       /\ NamespacePurl(packages[i].purl)
       /\ Included(i)
       /\ merged_sbom.metadata.component.name = packages[i].name

\* C28: no two entries of the components list of a merged document have the
\* same bom-ref.
C28_DistinctBomRefs ==
  MergeReturned =>
    \A a, b \in DOMAIN merged_sbom.components :
      a # b => merged_sbom.components[a].bom_ref # merged_sbom.components[b].bom_ref

(***************************************************************************)
(* Merges of a scan in which one scanner stores up to MaxRows packages,    *)
(* so that its dependency edges can share a parent, repeat a translated    *)
(* edge, or end at a package left out of the merge.  The reports are a     *)
(* few fixed component lists.                                              *)
(***************************************************************************)
DepsReports ==
  [s \in MergeScanners |->
     IF s = "trivy"
     THEN {<<Pkg(S_temp, V_12, P_none, "false"),
             Pkg(S_temp, V_12, P_none, "false"),
             Pkg(S_ab, V_12, P_none, "false")>>,
           <<Pkg(S_temp, V_12, P_none, "false"),
             Pkg(S_ab, V_12, P_none, "false"),
             Pkg(S_ab, V_12, P_GHA, "false")>>,
           <<Pkg(S_temp, V_12, P_none, "true"),
             Pkg(S_ab, V_12, P_none, "false")>>}
     ELSE {<<Pkg(S_ab, V_12, P_npm, "false")>>}]

SaveDepsPackages ==
  \E s \in MergeScanners :
    /\ ScanRunning
    /\ \A i \in DOMAIN packages : RunOrder(packages[i].scanner) < RunOrder(s)
    /\ \E pkgs \in DepsReports[s] :
         /\ Len(packages) + Len(pkgs) <= MaxRows
         /\ save_packages(s, pkgs)

NextDeps ==
  \/ SaveDepsPackages
  \/ SaveDependencies
  \/ GetMergedSbom
  \/ MergeSbomsWithSelections

SpecDeps == Init /\ [][NextDeps]_vars

\* how the last merge decided on unique packages
HowMerged ==
  IF last_call.op = "get_merged_sbom" THEN [policy |-> last_call.policy]
  ELSE [selected |-> last_call.selected]

EdgesOf(doc) ==
  UNION {{<<doc.dependencies[d].ref, c>> : c \in doc.dependencies[d].dependsOn} :
           d \in DOMAIN doc.dependencies}

RowKey(i) == <<packages[i].scanner, packages[i].original_ref>>

\* the stored edges both of whose endpoints the reference map translates
TranslatedEdges(map) ==
  {<<map[RowKey(d.parent_id)], map[RowKey(d.child_id)]>> :
     d \in {e \in dependencies : /\ RowKey(e.parent_id) \in DOMAIN map
                                 /\ RowKey(e.child_id) \in DOMAIN map}}

\* C25: in the merged document each parent reference has one entry of
\* dependencies, every entry has children, the edges are exactly the
\* stored edges whose two endpoints the (scanner, original_ref) -> bom-ref
\* map of the merge translates, and total_dependencies is the number of
\* entries.
C25_DependenciesConsolidated ==
  MergeReturned =>
    /\ \A a, b \in DOMAIN merged_sbom.dependencies :
         a # b => merged_sbom.dependencies[a].ref # merged_sbom.dependencies[b].ref
    /\ \A a \in DOMAIN merged_sbom.dependencies : merged_sbom.dependencies[a].dependsOn # {}
    /\ merged_sbom.metadata.properties.total_dependencies = Len(merged_sbom.dependencies)
    /\ \E order \in QueryOrders(packages) :
         LET data == PackagesData(packages, order)
             acc == SecondPass(FirstPass(data), data, 1, HowMerged)
         IN /\ acc.merged_components = merged_sbom.components
            /\ EdgesOf(merged_sbom) = TranslatedEdges(acc.package_id_map)

\* two stored edges with the same translated parent became one entry with
\* two children
C25_Witness ==
  /\ MergeReturned
  /\ Cardinality(dependencies) = 2
  /\ Len(merged_sbom.dependencies) = 1
  /\ Cardinality(merged_sbom.dependencies[1].dependsOn) = 2

\* a stored edge ends at a package that is not in the merge and is dropped,
\* another one is kept
C25_WitnessDropped ==
  /\ MergeReturned
  /\ Cardinality(dependencies) = 2
  /\ Cardinality(EdgesOf(merged_sbom)) = 1
  /\ \E d \in dependencies : ~Included(d.child_id)

(***************************************************************************)
(* PackageAnalyze._extract_packages, the normalisation of the components   *)
(* of a scanner's SBOM, followed by save_packages of what it returns.      *)
(***************************************************************************)
IsSpace(c) == c = " "

\* str.strip()
RECURSIVE Strip(_)
Strip(s) ==
  IF s = <<>> THEN s
  ELSE IF IsSpace(Head(s)) THEN Strip(Tail(s))
  ELSE IF IsSpace(s[Len(s)]) THEN Strip(SubSeq(s, 1, Len(s) - 1))
  ELSE s

\* component.get(field, "").lower().strip()
Normalized(s) == Strip(LowerStr(s))

\* the packages returned for the components of an SBOM: a component whose
\* name is empty after normalisation is left out
_extract_packages(components) ==
  LET pkgs == [k \in DOMAIN components |->
                 [name |-> Normalized(components[k].name),
                  version |-> Normalized(components[k].version),
                  purl |-> Normalized(components[k].purl),
                  primary |-> "false"]]
  IN SelectSeq(pkgs, LAMBDA q : q.name # <<>>)

S_ab_blank == <<"a", "b", " ">>
S_blank == <<" ">>
V_empty == <<>>

\* components a scanner may write into its SBOM
Components ==
  [name : {S_temp, S_Temp, S_ab_blank, S_blank}, version : {V_123, V_1234, V_empty},
   purl : {<<>>}]

\* one scanner's SBOM is normalised and its packages are stored
ExtractPackages ==
  \E s \in Scanners :
    /\ ScanRunning
    /\ \A i \in DOMAIN packages : RunOrder(packages[i].scanner) < RunOrder(s)
    /\ Len(packages) < MaxRows
    /\ \E components \in PackageLists(Components, Min2(MaxReported, MaxRows - Len(packages))) :
         /\ packages' = SelectSeq(packages, LAMBDA r : r.scanner # s)
                          \o NewRows(s, _extract_packages(components))
         /\ last_call' = [op |-> "save_packages", scanner |-> s, components |-> components]
    /\ UNCHANGED <<dependencies, merged_sbom>>

NextNormalize ==
  \/ ExtractPackages
  \/ FindExactMatches
  \/ FindFuzzyMatches
  \/ FindUniquePackages

SpecNormalize == Init /\ [][NextNormalize]_vars

(***************************************************************************)
(* run_scan: the scanners run one after the other, then the packages and   *)
(* dependencies of each scanner that produced an SBOM are extracted and    *)
(* saved, all inside one try block.  While run_scan runs, last_call holds  *)
(* its position, the SBOMResult of each scanner, the value save_packages   *)
(* returned for each scanner, the status of its scan object and the status *)
(* stored by save_scan_results.                                            *)
(***************************************************************************)
ScanOrder == <<"trivy", "syft", "cdxgen">>

\* "name": null in a component
S_null == <<"null">>

\* the call of .lower() on a name that is not a string raises
Raises(components) == \E k \in DOMAIN components : components[k].name = S_null

ScanComponents == [name : {S_temp, S_ab_blank, S_null}, version : {V_123}, purl : {<<>>}]

Pending == [kind |-> "pending"]

Scanning == last_call.op = "run_scan"

ComponentsFound(results) ==
  LET RECURSIVE Sum(_)
      Sum(k) == IF k = 0 THEN 0
                ELSE Sum(k - 1) + (IF results[ScanOrder[k]].kind = "sbom"
                                   THEN Len(results[ScanOrder[k]].sbom) ELSE 0)
  IN Sum(Len(ScanOrder))

\* start_scan has stored the scan as pending; run_scan sets the status of
\* its scan object to in-progress without storing it; the repository is
\* one that can be cloned
RunScan ==
  /\ last_call.op = "none"
  /\ last_call' = [op |-> "run_scan", pc |-> "scanners", next |-> 1,
                   results |-> [s \in Scanners |-> Pending],
                   saved |-> [s \in Scanners |-> "pending"],
                   status |-> "in-progress",
                   stored |-> "pending"]
  /\ UNCHANGED <<packages, dependencies, merged_sbom>>

\* _run_scanner: the SBOM of the scanner, or an error when it failed
RunScanner ==
  /\ Scanning
  /\ last_call.pc = "scanners"
  /\ LET s == ScanOrder[last_call.next]
         last == last_call.next = Len(ScanOrder)
         room == Min2(MaxReported, MaxRows - ComponentsFound(last_call.results))
     IN \E result \in {[kind |-> "error"]}
                        \cup {[kind |-> "sbom", sbom |-> c] :
                                c \in {<<>>} \cup PackageLists(ScanComponents, room)} :
          last_call' = [last_call EXCEPT
                          !.results[s] = result,
                          !.next = IF last THEN 1 ELSE @ + 1,
                          !.pc = IF last THEN "store" ELSE @,
                          !.status = IF last THEN "completed" ELSE @,
                          !.stored = IF last THEN "completed" ELSE @]
  /\ UNCHANGED <<packages, dependencies, merged_sbom>>

\* if result and result.sbom: extract_packages, save_packages,
\* save_dependencies; an exception leaves the try block
StoreScanner ==
  /\ Scanning
  /\ last_call.pc = "store"
  /\ LET s == ScanOrder[last_call.next]
         last == last_call.next = Len(ScanOrder)
         result == last_call.results[s]
         on == [last_call EXCEPT !.next = IF last THEN @ ELSE @ + 1,
                                 !.pc = IF last THEN "done" ELSE @]
     IN IF result.kind # "sbom"
        THEN /\ last_call' = on
             /\ UNCHANGED <<packages, dependencies>>
        ELSE IF Raises(result.sbom)
        THEN /\ last_call' = [last_call EXCEPT !.pc = "done", !.status = "failed",
                                                !.stored = "failed"]
             /\ UNCHANGED <<packages, dependencies>>
        ELSE \E ok \in BOOLEAN :
               LET rows == IF ok
                           THEN SelectSeq(packages, LAMBDA r : r.scanner # s)
                                  \o NewRows(s, _extract_packages(result.sbom))
                           ELSE packages
                   ids == {i \in DOMAIN rows : rows[i].scanner = s}
               IN /\ packages' = rows
                  /\ last_call' = [on EXCEPT !.saved[s] = IF ok THEN "true" ELSE "false"]
                  /\ \E edges \in SUBSET {e \in [parent_id : ids, child_id : ids] :
                                            e.parent_id # e.child_id} :
                       /\ Cardinality(dependencies \cup edges) <= MaxDeps
                       /\ dependencies' = dependencies \cup edges
  /\ UNCHANGED merged_sbom

NextScan ==
  \/ RunScan
  \/ RunScanner
  \/ StoreScanner

SpecScan == Init /\ [][NextScan]_vars

(***************************************************************************)
(* find_fuzzy_matches on an inventory with more qualifying pairs than the  *)
(* LIMIT of its query.  The inventories of the model are small, so the     *)
(* same query is run with the limit scaled down to ScaledLimit rows.       *)
(***************************************************************************)
ScaledLimit == 1

FindFuzzyMatchesLimited ==
  \E t \in Thresholds :
    \E kept \in LimitedResults(FuzzyRows(packages, t), ScaledLimit) :
      /\ last_call' = [op |-> "find_fuzzy_matches", threshold |-> t,
                       limit |-> ScaledLimit, result |-> kept]
      /\ UNCHANGED <<packages, dependencies, merged_sbom>>

NextLimit ==
  \/ SaveMatchPackages
  \/ FindFuzzyMatchesLimited

SpecLimit == Init /\ [][NextLimit]_vars

(***************************************************************************)
(* Further claims checked under SpecMatch.                                 *)
(***************************************************************************)
RowsOfScanner(s) == {i \in DOMAIN packages : packages[i].scanner = s}

KeyOfRow(i) == <<packages[i].name, packages[i].version>>

\* C15: analyze_scan_packages scores every scanner that stored packages
\* with max(0, (E + 0.5 F) / T * 100 - (U / T) * 10), T the number of its
\* stored rows and E, F, U the numbers of its packages listed as exact,
\* fuzzy and unique, each package counted once; the score is never
\* negative and a scanner without packages does not score above 0.
C15_ScoreFormula ==
  last_call.op = "analyze_scan_packages" =>
    LET res == last_call.result
    IN \A s \in Scanners :
         LET E == Cardinality({KeyOfRow(i) : i \in {j \in RowsOfScanner(s) : InExact(res, j)}})
             F == Cardinality({KeyOfRow(i) : i \in {j \in RowsOfScanner(s) : InFuzzy(res, j)}})
             U == Cardinality({KeyOfRow(i) : i \in {j \in RowsOfScanner(s) : InUnique(res, j)}})
             T == Cardinality(RowsOfScanner(s))
         IN IF T = 0
            THEN s \in DOMAIN res.scores => res.scores[s][1] = 0
            ELSE /\ s \in DOMAIN res.scores
                 /\ res.scores[s][1] >= 0
                 /\ res.scores[s][2] = T
                 /\ res.scores[s][1] = Max2(0, 100 * E + 50 * F - 10 * U)

\* C30: every score returned by analyze_scan_packages lies between 0 and
\* 100 inclusive.
C30_ScoreInRange ==
  last_call.op = "analyze_scan_packages" =>
    \A s \in DOMAIN last_call.result.scores :
      LET score == last_call.result.scores[s]
      IN /\ score[1] >= 0
         /\ score[1] <= 100 * score[2]

(***************************************************************************)
(* Two merge_sboms calls on one scan running concurrently.  Each call is   *)
(* a coroutine: it gives way at every await of _custom_merge, between the  *)
(* classification update, the package query (after which it builds its     *)
(* components), the dependency query (after which it builds its document), *)
(* the UPDATE of merged_sbom with its commit, and its return.  While the   *)
(* calls run, last_call holds the position and the local variables of      *)
(* each.                                                                   *)
(***************************************************************************)
Callers == {1, 2}

Concurrent == last_call.op = "concurrent_merges"

At(c, step) == Concurrent /\ last_call.calls[c].pc = step

Advance(c, step, field, value) ==
  last_call' = [last_call EXCEPT !.calls[c].pc = step, !.calls[c][field] = value]

\* two requests arrive after the scan has stored its packages
StartMerges ==
  /\ ScanRunning
  /\ packages # <<>>
  /\ \E p1, p2 \in Policies :
       /\ p1 # p2
       /\ last_call' = [op |-> "concurrent_merges",
                        calls |-> [c \in Callers |->
                                     [pc |-> "classify",
                                      policy |-> IF c = 1 THEN p1 ELSE p2,
                                      acc |-> EmptyAcc, doc |-> NoDoc, result |-> NoDoc]]]
  /\ UNCHANGED <<packages, dependencies, merged_sbom>>

\* await db_service.update_match_status(scan_id)
Classify(c) ==
  /\ At(c, "classify")
  /\ packages' = update_match_status(packages)
  /\ Advance(c, "read_packages", "acc", EmptyAcc)
  /\ UNCHANGED <<dependencies, merged_sbom>>

\* the package query and the two passes over its rows
ReadPackages(c) ==
  /\ At(c, "read_packages")
  /\ \E order \in QueryOrders(packages) :
       LET data == PackagesData(packages, order)
       IN Advance(c, "read_dependencies", "acc",
                  SecondPass(FirstPass(data), data, 1, [policy |-> last_call.calls[c].policy]))
  /\ UNCHANGED <<packages, dependencies, merged_sbom>>

\* the dependency query and the assembly of the document
ReadDependencies(c) ==
  /\ At(c, "read_dependencies")
  /\ \E dorder \in Perms(dependencies) :
       Advance(c, "write", "doc",
               MergedSbom(last_call.calls[c].acc,
                          DependenciesData(packages, dependencies, dorder),
                          last_call.calls[c].policy))
  /\ UNCHANGED <<packages, dependencies, merged_sbom>>

StoredAfterUpdate_components(stored, doc) ==
  IF stored = NoDoc THEN doc ELSE [stored EXCEPT !.components = doc.components]

\* UPDATE scan_results SET merged_sbom = :merged_sbom
StoredAfterUpdate(stored, doc) == doc

WriteMergedSbom(c) ==
  /\ At(c, "write")
  /\ merged_sbom' = StoredAfterUpdate(merged_sbom, last_call.calls[c].doc)
  /\ Advance(c, "return", "doc", last_call.calls[c].doc)
  /\ UNCHANGED <<packages, dependencies>>

\* return merged_sbom, and the test of merge_sboms on it
ReturnMerged(c) ==
  /\ At(c, "return")
  /\ Advance(c, "done", "result", MergeResult(last_call.calls[c].doc))
  /\ UNCHANGED <<packages, dependencies, merged_sbom>>

NextConcurrent ==
  \/ SaveMergePackages
  \/ SaveDependencies
  \/ StartMerges
  \/ \E c \in Callers : Classify(c)
  \/ \E c \in Callers : ReadPackages(c)
  \/ \E c \in Callers : ReadDependencies(c)
  \/ \E c \in Callers : WriteMergedSbom(c)
  \/ \E c \in Callers : ReturnMerged(c)

SpecConcurrent == Init /\ [][NextConcurrent]_vars

(***************************************************************************)
(* Claim checked under SpecConcurrent.                                     *)
(***************************************************************************)
\* the documents a call running alone on the stored data can build under
\* a policy (one for each order the queries may return tied rows in)
SoloDocs(policy) ==
  LET rows == update_match_status(packages)
  IN {CustomMergeDoc(rows, dependencies, policy, order, dorder) :
        order \in QueryOrders(rows), dorder \in Perms(dependencies)}

Written(c) == Concurrent /\ last_call.calls[c].pc \in {"return", "done"}

\* C14: of two merges of one scan running concurrently under different
\* flags, each returns a result a solo run under its own flags returns, and
\* the stored merged_sbom is always the whole document of one of the calls.
C14_ConcurrentMergesIndependent ==
  Concurrent =>
    /\ \A c \in Callers :
         /\ Written(c) => last_call.calls[c].doc \in SoloDocs(last_call.calls[c].policy)
         /\ At(c, "done") =>
              \E doc \in SoloDocs(last_call.calls[c].policy) :
                last_call.calls[c].result = MergeResult(doc)
    /\ \/ merged_sbom = NoDoc /\ \A c \in Callers : ~Written(c)
       \/ \E c \in Callers : Written(c) /\ merged_sbom = last_call.calls[c].doc

\* both calls have returned documents with different components, and the
\* stored document is the one of the first caller
C14_Witness ==
  /\ Concurrent
  /\ \A c \in Callers : At(c, "done") /\ last_call.calls[c].result.kind = "doc"
  /\ last_call.calls[1].doc.components # last_call.calls[2].doc.components
  /\ merged_sbom = last_call.calls[1].doc
  /\ merged_sbom # last_call.calls[2].result

(***************************************************************************)
(* A merge requested while run_scan is still saving.  run_scan is a        *)
(* background task on the event loop of the requests; it stores the status *)
(* completed before it saves the packages of its scanners one await after  *)
(* the other, and get_merged_sbom does not look at the status.  A          *)
(* save_packages of run_scan can therefore run at any await of the merge.  *)
(***************************************************************************)
Merger == 1

StartMergeDuringScan ==
  /\ ScanRunning
  /\ packages # <<>>
  /\ \E policy \in Policies :
       last_call' = [op |-> "concurrent_merges",
                     calls |-> [c \in {Merger} |->
                                  [pc |-> "classify", policy |-> policy,
                                   acc |-> EmptyAcc, doc |-> NoDoc, result |-> NoDoc]]]
  /\ UNCHANGED <<packages, dependencies, merged_sbom>>

\* the save_packages of the next scanner of run_scan
SaveDuringMerge ==
  /\ Concurrent
  /\ Len(packages) < MaxRows
  /\ \E s \in MergeScanners :
       /\ \A i \in DOMAIN packages : RunOrder(packages[i].scanner) < RunOrder(s)
       /\ \E pkgs \in PackageLists(MergeCatalog[s], Min2(MaxReported, MaxRows - Len(packages))) :
            packages' = SelectSeq(packages, LAMBDA r : r.scanner # s) \o NewRows(s, pkgs)
  /\ UNCHANGED <<dependencies, merged_sbom, last_call>>

NextScanMerge ==
  \/ SaveMergePackages
  \/ StartMergeDuringScan
  \/ SaveDuringMerge
  \/ Classify(Merger)
  \/ ReadPackages(Merger)
  \/ ReadDependencies(Merger)
  \/ WriteMergedSbom(Merger)
  \/ ReturnMerged(Merger)

SpecScanMerge == Init /\ [][NextScanMerge]_vars

(***************************************************************************)
(* Claim checked under SpecScanMerge.                                      *)
(***************************************************************************)
\* C26: the package query of a merge reads rows whose match statuses were
\* computed over exactly the rows it reads: no row it reads has the default
\* status unique while its (name, version) is stored by another scanner
\* too.
C26_MergeReadsClassifiedRows ==
  [][(At(Merger, "read_packages") /\ last_call'.calls[Merger].pc = "read_dependencies") =>
       \A i \in DOMAIN packages :
         packages[i].match_status = "unique" =>
           ScannerCount(packages, packages[i].name, packages[i].version) < 2]_vars

(***************************************************************************)
(* Claims checked under SpecNormalize.                                     *)
(***************************************************************************)
StoredBy(rows, s, n, v) ==
  \E i \in DOMAIN rows : rows[i].scanner = s /\ rows[i].name = n /\ rows[i].version = v

\* scanner a wrote temp@v and scanner b wrote Temp@v into their SBOMs, and
\* neither wrote the other's spelling
CasedPair(ca, cb, v) ==
  /\ \E k \in DOMAIN ca : ca[k].name = S_temp /\ ca[k].version = v
  /\ \E k \in DOMAIN cb : cb[k].name = S_Temp /\ cb[k].version = v
  /\ \A k \in DOMAIN ca : ca[k].name # S_Temp
  /\ \A k \in DOMAIN cb : cb[k].name # S_temp

\* C16: normalisation keeps letter case: when one scanner reports temp and
\* the next reports Temp with the same version, the two stored names
\* differ, the pair is not an exact match, and it is a fuzzy match whose
\* name_similarity is the one of the case-sensitive strings.
C16_CasePreserved ==
  [][\A v \in {V_123, V_1234} :
       (/\ last_call.op = "save_packages"
        /\ last_call'.op = "save_packages"
        /\ last_call.scanner # last_call'.scanner
        /\ \A i \in DOMAIN packages : packages[i].scanner = last_call.scanner
        /\ CasedPair(last_call.components, last_call'.components, v))
       => /\ StoredBy(packages', last_call.scanner, S_temp, v)
          /\ StoredBy(packages', last_call'.scanner, S_Temp, v)
          /\ \A m \in find_exact_matches(packages') : m.name \notin {S_temp, S_Temp}
          /\ \E m \in find_fuzzy_matches(packages', DefaultThresholdTenths) :
               /\ {m.name, m.similar_to.name} = {S_temp, S_Temp}
               /\ m.version = v /\ m.similar_to.version = v
               /\ m.name_similarity = LevSimilarity(S_temp, S_Temp)]_vars

EmptyKey(n, v) == n = <<>> \/ v = <<>>

\* C19: a stored package whose name or version is empty is in no exact
\* match and in no fuzzy match, and is listed as unique for its scanner.
C19_EmptyNeverMatched ==
  /\ last_call.op = "find_exact_matches" =>
       \A m \in last_call.result : ~EmptyKey(m.name, m.version)
  /\ last_call.op = "find_fuzzy_matches" =>
       \A m \in last_call.result :
         /\ ~EmptyKey(m.name, m.version)
         /\ ~EmptyKey(m.similar_to.name, m.similar_to.version)
  /\ last_call.op = "find_unique_packages" =>
       \A i \in DOMAIN packages :
         EmptyKey(packages[i].name, packages[i].version) =>
           /\ packages[i].scanner \in DOMAIN last_call.result
           /\ KeyOfRow(i) \in last_call.result[packages[i].scanner]

(***************************************************************************)
(* Claims checked under SpecScan.                                          *)
(***************************************************************************)
RowsStoredFor(s) == SelectSeq(packages, LAMBDA r : r.scanner = s)

\* C18: once run_scan has ended, every scanner has a result (an SBOM or an
\* error), and for every scanner whose SBOM can be extracted save_packages
\* was called, also when the extraction for another scanner failed; the
\* rows of a scanner whose packages were saved are in place.
C18_FailureIsolation ==
  (Scanning /\ last_call.pc = "done") =>
    \A s \in Scanners :
      /\ last_call.results[s].kind \in {"sbom", "error"}
      /\ (/\ last_call.results[s].kind = "sbom"
          /\ ~Raises(last_call.results[s].sbom))
         => last_call.saved[s] # "pending"
      /\ last_call.saved[s] = "true" =>
           RowsStoredFor(s) = NewRows(s, _extract_packages(last_call.results[s].sbom))

\* C27: whenever the stored status of the scan is completed, the packages
\* of every scanner that produced an SBOM have been saved.
C27_CompletedMeansSaved ==
  (Scanning /\ last_call.stored = "completed") =>
    \A s \in Scanners :
      last_call.results[s].kind = "sbom" =>
        /\ last_call.saved[s] = "true"
        /\ RowsStoredFor(s) = NewRows(s, _extract_packages(last_call.results[s].sbom))

\* C29: the stored status of a scan starts as pending, and a step of
\* run_scan only moves it forward: from pending to in-progress, from
\* in-progress to completed or failed, and never away from completed or
\* failed.
C29_StatusMovesForward ==
  [][(Scanning /\ last_call'.op = "run_scan" /\ last_call'.stored # last_call.stored) =>
       \/ last_call.stored = "pending" /\ last_call'.stored = "in-progress"
       \/ last_call.stored = "in-progress" /\ last_call'.stored \in {"completed", "failed"}]_vars

(***************************************************************************)
(* Claim checked under SpecLimit.                                          *)
(***************************************************************************)
\* the package <<name, version, scanner>> is on a side of a returned pair
InResult(res, p) ==
  \E m \in res :
    \/ <<m.name, m.version, m.scanner>> = p
    \/ <<m.similar_to.name, m.similar_to.version, m.similar_to.scanner>> = p

\* C23: for every pair of non-exact packages that passes the pre-filter
\* and scores above the threshold, both packages are on a side of some
\* pair returned by find_fuzzy_matches, whatever the result limit cuts off.
C23_AnyQualifyingPairMakesFuzzy ==
  last_call.op = "find_fuzzy_matches" =>
    \A pp \in fuzzy_candidates(packages) :
      (/\ ExceedsThreshold(FuzzyRow(pp).overall_similarity, last_call.threshold)
       /\ ScannerCount(packages, pp[1][1], pp[1][2]) < 2
       /\ ScannerCount(packages, pp[2][1], pp[2][2]) < 2)
      => /\ InResult(last_call.result, pp[1])
         /\ InResult(last_call.result, pp[2])

====
